---- MODULE Spec2Model ----
(***************************************************************************)
(* Model of galileo's request pipeline: Request::try_from_message, the     *)
(* Responder (run / dispense / reply_dispense_summary) of responder.rs and *)
(* the task wiring and supervision of Serve::exec in opt/serve.rs.         *)
(* The Handler (rate limiter), the Catchup worker and the Wallet worker    *)
(* are not part of the given sources; they are modelled from the           *)
(* specification document and are marked as such where they are defined.   *)
(***************************************************************************)
EXTENDS Integers, Sequences, FiniteSets, TLC

\* ------------------------------------------------------------- bounds
\* Longest content of a message, in segments (address-shaped matches and text).
MaxTokens == 3
\* Largest configured --max-addresses the model is started with.
MaxCap == 1
\* Number of requests created over one run of the model.
MaxRequests == 2
\* Largest configured --buffer-size (capacity of the Responder's action queue).
MaxBuffer == 2
\* The configured --reply-limit.
ReplyLimit == 1
\* Clock ticks of a run; the rate-limit window lasts RateLimit ticks.
MaxTime == 1
RateLimit == 1
\* Catch-up anchors (--catch-up) and messages in each anchor's backlog.
NumAnchors == 1
MaxBacklog == 1

Users == {"u1"}
Anchors == 1..NumAnchors
Tasks == {"client", "responder", "wallet", "catch_up"}

\* Producers of Requests and holders of a Sender of the action queue.
Live == <<"client", 0>>
Group == <<"catch_up", 0>>
Replayer(a) == <<"anchor", a>>

\* A segment of a message's content: a regex match that parses as an address,
\* a regex match that does not, or text the regex does not match.
Segments == {"Address", "Almost", "Text"}
Kinds == {"Address", "Almost"}

RECURSIVE SeqsUpTo(_, _)
SeqsUpTo(S, n) ==
    IF n = 0 THEN {<<>>}
    ELSE LET shorter == SeqsUpTo(S, n - 1)
         IN  shorter \cup {Append(s, x) : s \in {t \in shorter : Len(t) = n - 1}, x \in S}

\* The contents a message dispensed on its own is drawn from, and the contents of
\* the messages of the whole pipeline: empty, text only, one valid address, one
\* malformed address.
LongContents == SeqsUpTo(Segments, MaxTokens)
Contents == {<<>>, <<"Text">>, <<"Address">>, <<"Almost">>}

NoMessage == [id |-> 0, author |-> "", content |-> <<>>]

NoReq == [message |-> [id |-> 0, author |-> ""], addresses |-> <<>>, src |-> <<"", 0>>]

VARIABLES
    max_addresses,   \* Responder.max_addresses
    buffer_size,     \* capacity given to mpsc::channel in Responder::new
    actions,         \* the mpsc channel Responder.actions: queued Requests
    senders,         \* holders of a live mpsc::Sender<Request>
    pending,         \* Requests whose producer is suspended in send().await
    nextId,          \* identity of the next message that yields a Request
    rpc,             \* position of Responder::run / dispense
    cur,             \* the Request taken by run
    addresses,       \* dispense: the mutable Vec<AddressOrAlmost>
    count,           \* dispense: loop counter
    succeeded_addresses, failed_addresses, unparsed_addresses,
    sent,            \* send commands issued for cur, in order (token positions)
    requests,        \* the mpsc channel to the wallet worker
    result,          \* the oneshot carrying the outcome of the send in flight
    last,            \* buckets and summary of the dispense completed last
    replyLog,        \* ids of the Requests whose response.send ran, in order
    enqLog,          \* the Requests (id, producer) in the order they entered the queue
    deqLog,          \* the Requests (id, producer) in the order run received them
    rx,              \* per Request: state of the oneshot receiver
    task,            \* result of each supervised task
    exec,            \* result of Serve::exec
    now, rate,       \* the clock and the Handler's per-user rate-limit state
    notices,         \* per user: rate-limit notices replied in the window
    later,           \* per user: address-bearing messages after the admitted one
    admitted,        \* per user: Requests made of the user's messages in the window
    anchor           \* per catch-up anchor: backlog left and task state

vars == <<max_addresses, buffer_size, actions, senders, pending, nextId, rpc, cur, addresses,
          count, succeeded_addresses, failed_addresses, unparsed_addresses, sent,
          requests, result, last, replyLog, enqLog, deqLog, rx, task, exec, now,
          rate,
          notices, later, admitted, anchor>>

responderVars == <<rpc, cur, addresses, count, succeeded_addresses,
                   failed_addresses, unparsed_addresses, sent, last, replyLog,
                   deqLog>>
walletVars == <<requests, result>>
gateVars == <<now, rate, notices, later, admitted>>

Running == exec = "running"

\* ------------------------------------------------- Request::try_from_message
\* address_regex.find_iter(&message.content): the address-shaped matches, left to
\* right; text that does not match is skipped.
FindIter(content) == SelectSeq(content, LAMBDA seg : seg \in Kinds)

\* .map(|m| match m.as_str().parse() {..}).collect(): one AddressOrAlmost per match.
\* A token is identified by its position among the matches.
CollectAddresses(content) ==
    LET ms == FindIter(content)
    IN  [i \in 1..Len(ms) |-> [pos |-> i, kind |-> ms[i]]]

\* try_from_message without the is_empty test: a Request is made of any message.
TryFromMessageAlways(message, src) ==
    [ok |-> TRUE, message |-> message,
     request |-> [message |-> [id |-> message.id, author |-> message.author],
                  addresses |-> CollectAddresses(message.content), src |-> src]]

\* Err(message) when no address was found, else Ok((rx, Request{..})).
TryFromMessage(message, src) ==
    LET found == CollectAddresses(message.content)
    IN  IF found = <<>>
        THEN [ok |-> FALSE, message |-> message, request |-> NoReq]
        ELSE [ok |-> TRUE, message |-> message,
              request |-> [message |-> [id |-> message.id, author |-> message.author],
                           addresses |-> found, src |-> src]]

\* ------------------------------------------------- Responder::dispense
\* A match that sends to whatever token was popped.
AnyToken(t) == TRUE

IsAddress(t) == t.kind = "Address"
IsAlmost(t) == t.kind = "Almost"

\* A pop that reads the last element and leaves it in the vector.
PopBackKeeps(v) == [item |-> v[Len(v)], rest |-> v]

\* Vec::pop: the element removed and the vector left.
PopBack(v) == [item |-> v[Len(v)], rest |-> SubSeq(v, 1, Len(v) - 1)]

\* A loop that goes on until the list is empty.
LoopUnbounded(c, cap) == TRUE

\* while count <= self.max_addresses
LoopGuard(c, cap) == c <= cap

\* for addr in addresses { Address => remaining_addresses.push, Almost => unparsed.. }
RemainingAddresses(v) == SelectSeq(v, IsAddress)
\* The rest of the list split without its malformed tokens.
RestUnparsedLost(v) == <<>>

RestUnparsed(v) == SelectSeq(v, IsAlmost)

\* reply_dispense_summary: one section per non-empty bucket, in a fixed order; the
\* last section states self.max_addresses.
Section(name, entries, cap) ==
    IF entries = <<>> THEN <<>>
    ELSE <<[section |-> name, entries |-> entries, cap |-> cap]>>

ReplyDispenseSummary(s, f, u, r, cap) ==
    Section("succeeded", s, -1) \o Section("failed", f, -1)
        \o Section("unparsed", u, -1) \o Section("deferred", r, cap)

NoDispense == [id |-> 0, tokens |-> <<>>, succeeded |-> <<>>, failed |-> <<>>,
               unparsed |-> <<>>, deferred |-> <<>>, sent |-> <<>>, summary |-> <<>>]

\* ------------------------------------------------- Responder::run
\* A receive that takes the newest buffered Request.
Back(q) == [item |-> q[Len(q)], rest |-> SubSeq(q, 1, Len(q) - 1)]

\* mpsc::Receiver::recv: the oldest buffered Request and the buffer left.
Front(q) == [item |-> Head(q), rest |-> Tail(q)]

Entry(r) == [id |-> r.message.id, src |-> r.src]

\* self.actions.recv().await yields Some(request): dispense starts on it.
Recv ==
    /\ Running /\ rpc = "recv" /\ actions # <<>>
    /\ cur' = Front(actions).item
    /\ actions' = Front(actions).rest
    /\ deqLog' = Append(deqLog, Entry(Front(actions).item))
    /\ addresses' = Front(actions).item.addresses
    /\ count' = 0
    /\ succeeded_addresses' = <<>>
    /\ failed_addresses' = <<>>
    /\ unparsed_addresses' = <<>>
    /\ sent' = <<>>
    /\ rpc' = "loop"
    /\ UNCHANGED <<max_addresses, buffer_size, senders, pending, nextId, walletVars,
                   last, replyLog, enqLog, rx, task, exec, gateVars, anchor>>

\* A recv that yields None as soon as every Sender is dropped.
QueueClosedEarly == senders = {} /\ pending = <<>>

\* recv() yields None once every Sender is dropped, a suspended send holding one,
\* and the buffer is empty.
QueueClosed == actions = <<>> /\ senders = {} /\ pending = <<>>

\* The while-let of run ends on None and run returns Ok(()).
RecvClosed ==
    /\ Running /\ rpc = "recv" /\ QueueClosed
    /\ rpc' = "done"
    /\ task' = [task EXCEPT !["responder"] = "ok"]
    /\ UNCHANGED <<max_addresses, buffer_size, actions, senders, pending, nextId, cur, addresses,
                   count, succeeded_addresses, failed_addresses, unparsed_addresses,
                   sent, walletVars, last, replyLog, enqLog, deqLog, rx, exec,
                   gateVars, anchor>>

\* self.values, set in Responder::new: what every send command carries.
Values == "self.values"

\* One loop iteration that pops an Address: a send command goes to the wallet
\* worker; send().await? fails when the worker's receiver is gone.
LoopAddress ==
    /\ Running /\ rpc = "loop"
    /\ LoopGuard(count, max_addresses)
    /\ addresses # <<>> /\ IsAddress(PopBack(addresses).item)
    /\ count' = count + 1
    /\ addresses' = PopBack(addresses).rest
    /\ IF task["wallet"] = "running"
       THEN /\ requests' = Append(requests, [addr |-> PopBack(addresses).item,
                                             values |-> Values,
                                             id |-> cur.message.id])
            /\ result' = "pending"
            /\ sent' = Append(sent, PopBack(addresses).item)
            /\ rpc' = "await"
            /\ task' = task
       ELSE /\ rpc' = "failed"
            /\ task' = [task EXCEPT !["responder"] = "err"]
            /\ UNCHANGED <<requests, result, sent>>
    /\ UNCHANGED <<max_addresses, buffer_size, actions, senders, pending, nextId, cur,
                   succeeded_addresses, failed_addresses, unparsed_addresses, last,
                   replyLog, enqLog, deqLog, rx, exec, gateVars, anchor>>

\* A dispense that returns the wallet's error for the address as its own.
AwaitFailsOnError(res) == res \in {"dropped", "err"}

\* result.await?: the `?` returns only the error of a dropped oneshot; the
\* wallet's Err for the address is the inner value, matched afterwards.
AwaitFails(res) == res = "dropped"

\* result.await?: the outcome is filed, or the dropped oneshot ends the task.
AwaitResult ==
    /\ Running /\ rpc = "await" /\ result \in {"ok", "err", "dropped"}
    /\ LET addr == sent[Len(sent)]
       IN  /\ succeeded_addresses' =
                 IF result = "ok" THEN Append(succeeded_addresses, addr)
                 ELSE succeeded_addresses
           /\ failed_addresses' =
                 IF result = "err" THEN Append(failed_addresses, <<addr, "error">>)
                 ELSE failed_addresses
    /\ rpc' = IF AwaitFails(result) THEN "failed" ELSE "loop"
    /\ task' = IF AwaitFails(result) THEN [task EXCEPT !["responder"] = "err"] ELSE task
    /\ result' = "none"
    /\ UNCHANGED <<max_addresses, buffer_size, actions, senders, pending, nextId, cur, addresses,
                   count, unparsed_addresses, sent, requests, last, replyLog, enqLog,
                   deqLog, rx, exec, gateVars, anchor>>

\* One loop iteration that pops an Almost.
LoopAlmost ==
    /\ Running /\ rpc = "loop"
    /\ LoopGuard(count, max_addresses)
    /\ addresses # <<>> /\ IsAlmost(PopBack(addresses).item)
    /\ count' = count + 1
    /\ addresses' = PopBack(addresses).rest
    /\ unparsed_addresses' = Append(unparsed_addresses, PopBack(addresses).item)
    /\ UNCHANGED <<max_addresses, buffer_size, actions, senders, pending, nextId, rpc, cur,
                   succeeded_addresses, failed_addresses, sent, walletVars, last,
                   replyLog, enqLog, deqLog, rx, task, exec, gateVars, anchor>>

\* A run that drops the Request without sending on its oneshot.
NotResponded(log, id) == log

\* let _ = response.send((message, reply)): one reply is sent for the Request.
Responded(log, id) == Append(log, id)

\* A run that returns the error of a reply nobody waits for.
ReplyFailsIfDropped(receiver) == receiver = "dropped"

\* let _ = response.send((message, reply)): the Err that send gives when the
\* receiving half is dropped is discarded.
ReplyFails(receiver) == FALSE

\* The loop ends (guard false, or pop() gave None): the rest of the list is split,
\* the summary composed, and run sends it on the Request's oneshot; a send to a
\* dropped receiver is ignored (let _ =).
Reply ==
    /\ Running /\ rpc = "loop"
    /\ ~LoopGuard(count, max_addresses) \/ addresses = <<>>
    /\ LET remaining == RemainingAddresses(addresses)
           unparsed == unparsed_addresses \o RestUnparsed(addresses)
           id == cur.message.id
       IN  /\ last' = [id |-> id, tokens |-> cur.addresses,
                       succeeded |-> succeeded_addresses,
                       failed |-> failed_addresses,
                       unparsed |-> unparsed, deferred |-> remaining, sent |-> sent,
                       summary |-> ReplyDispenseSummary(succeeded_addresses,
                                       failed_addresses, unparsed, remaining,
                                       max_addresses)]
           /\ replyLog' = Responded(replyLog, id)
           /\ rx' = IF rx[id] = "open" THEN [rx EXCEPT ![id] = "received"] ELSE rx
           /\ rpc' = IF ReplyFails(rx[id]) THEN "failed" ELSE "recv"
           /\ task' = IF ReplyFails(rx[id])
                      THEN [task EXCEPT !["responder"] = "err"] ELSE task
    /\ cur' = NoReq
    /\ addresses' = <<>>
    /\ count' = 0
    /\ succeeded_addresses' = <<>>
    /\ failed_addresses' = <<>>
    /\ unparsed_addresses' = <<>>
    /\ sent' = <<>>
    /\ UNCHANGED <<max_addresses, buffer_size, actions, senders, pending, nextId,
                   walletVars, enqLog, deqLog, exec, gateVars, anchor>>

\* ------------------------------------------------- the action queue
ResponderGone == rpc \in {"done", "failed"}

\* mpsc::Sender::send on the bounded channel of Responder::new: the Request enters
\* the buffer if there is room and no earlier sender is waiting; otherwise its
\* producer is suspended behind the senders already waiting.
HasRoom == Len(actions) < buffer_size /\ pending = <<>>

\* A try_send: the Request is dropped when the buffer is full.
SendOrDrop(r) ==
    IF HasRoom
    THEN /\ actions' = Append(actions, r)
         /\ enqLog' = Append(enqLog, Entry(r))
         /\ pending' = pending
    ELSE UNCHANGED <<actions, enqLog, pending>>

Send(r) ==
    IF HasRoom
    THEN /\ actions' = Append(actions, r)
         /\ enqLog' = Append(enqLog, Entry(r))
         /\ pending' = pending
    ELSE /\ pending' = Append(pending, r)
         /\ UNCHANGED <<actions, enqLog>>

\* Room has appeared: the sender that has waited longest completes its send.
Enqueue ==
    /\ Running /\ pending # <<>>
    /\ ~ResponderGone
    /\ Len(actions) < buffer_size
    /\ actions' = Append(actions, Head(pending))
    /\ pending' = Tail(pending)
    /\ enqLog' = Append(enqLog, Entry(Head(pending)))
    /\ UNCHANGED <<max_addresses, buffer_size, senders, nextId, responderVars,
                   walletVars, rx, task, exec, gateVars, anchor>>

\* The receiving half of a Request's oneshot is dropped before the reply arrives.
DropReceiver(id) ==
    /\ Running /\ id \in DOMAIN rx /\ rx[id] = "open"
    /\ rx' = [rx EXCEPT ![id] = "dropped"]
    /\ UNCHANGED <<max_addresses, buffer_size, actions, senders, pending, nextId,
                   responderVars, walletVars, enqLog, task, exec, gateVars, anchor>>

\* ------------------------------------------------- Handler (Admission Gate)
InWindow(u) == rate[u].last >= 0 /\ now - rate[u].last < RateLimit

\* A gate that never stops sending notices.
NoticeAlways(u) == TRUE

NoticeAllowed(u) == rate[u].notices < ReplyLimit

\* A live message without an address-shaped match is not a request.
NotMine(u, content) ==
    /\ Running /\ task["client"] = "running"
    /\ ~TryFromMessage([id |-> nextId, author |-> u, content |-> content], Live).ok
    /\ UNCHANGED vars

\* A message inside the author's window: a rate-limit notice while the notice
\* count is below the reply limit, nothing at all afterwards. No Request is made.
Limited(u, content) ==
    /\ Running /\ task["client"] = "running"
    /\ TryFromMessage([id |-> nextId, author |-> u, content |-> content], Live).ok
    /\ InWindow(u)
    /\ later[u] <= ReplyLimit
    /\ later' = [later EXCEPT ![u] = @ + 1]
    /\ IF NoticeAllowed(u)
       THEN /\ rate' = [rate EXCEPT ![u].notices = @ + 1]
            /\ notices' = [notices EXCEPT ![u] = @ + 1]
       ELSE UNCHANGED <<rate, notices>>
    /\ UNCHANGED <<max_addresses, buffer_size, actions, senders, pending, nextId,
                   responderVars, walletVars, enqLog, rx, task, exec, now,
                   admitted, anchor>>

\* A first message, or one outside the window: the window restarts and the Request
\* made from the message is sent on the action queue.
Admit(u, content) ==
    /\ Running /\ task["client"] = "running"
    /\ ~ResponderGone
    /\ nextId <= MaxRequests
    /\ LET t == TryFromMessage([id |-> nextId, author |-> u, content |-> content],
                               Live)
       IN  /\ t.ok
           /\ ~InWindow(u)
           /\ Send(t.request)
    /\ rate' = [rate EXCEPT ![u] = [last |-> now, notices |-> 0]]
    /\ notices' = [notices EXCEPT ![u] = 0]
    /\ later' = [later EXCEPT ![u] = 0]
    /\ admitted' = [admitted EXCEPT ![u] = 1]
    /\ rx' = (nextId :> "open") @@ rx
    /\ nextId' = nextId + 1
    /\ UNCHANGED <<max_addresses, buffer_size, senders, responderVars, walletVars,
                   task, exec, now, anchor>>

Tick ==
    /\ Running /\ now < MaxTime
    /\ now' = now + 1
    /\ UNCHANGED <<max_addresses, buffer_size, actions, senders, pending, nextId,
                   responderVars, walletVars, enqLog, rx, task, exec, rate, notices,
                   later, admitted, anchor>>

\* ------------------------------------------------- Catchup (one per anchor)
Waiting(a) == \E i \in 1..Len(pending) : pending[i].src = Replayer(a)

\* The next historical message of the anchor's backlog, written by u, is run
\* through try_from_message; a Request made from it is sent on the shared queue.
ReplayMessage(a, u, content) ==
    /\ Running /\ anchor[a].state = "running" /\ anchor[a].backlog > 0
    /\ ~Waiting(a)
    /\ ~ResponderGone
    /\ LET t == TryFromMessage([id |-> nextId, author |-> u,
                                content |-> content], Replayer(a))
       IN  IF t.ok
           THEN /\ nextId <= MaxRequests
                /\ Send(t.request)
                /\ rx' = (nextId :> "open") @@ rx
                /\ nextId' = nextId + 1
           ELSE UNCHANGED <<actions, enqLog, pending, nextId, rx>>
    /\ anchor' = [anchor EXCEPT ![a].backlog = @ - 1]
    /\ UNCHANGED <<max_addresses, buffer_size, senders, responderVars, walletVars,
                   task, exec>>

\* A replay that goes through the gate as a live message does.
ReplayGated(a, u, content) ==
    /\ ReplayMessage(a, u, content)
    /\ ~InWindow(u)
    /\ rate' = [rate EXCEPT ![u] = [last |-> now, notices |-> 0]]
    /\ UNCHANGED <<now, notices, later, admitted>>

\* Catchup holds the Sender of the queue and nothing of the Handler: the replay
\* neither reads nor writes the rate-limit state.
ReplayOf(a, u, content) ==
    /\ ReplayMessage(a, u, content)
    /\ UNCHANGED gateVars

Replay(a, content) == \E u \in Users : ReplayOf(a, u, content)

\* The anchor's task returns Ok(()) at the end of its backlog; its Sender is dropped.
ReplayDone(a) ==
    /\ Running /\ anchor[a].state = "running" /\ anchor[a].backlog = 0
    /\ ~Waiting(a)
    /\ anchor' = [anchor EXCEPT ![a].state = "done"]
    /\ senders' = senders \ {Replayer(a)}
    /\ UNCHANGED <<max_addresses, buffer_size, actions, pending, nextId,
                   responderVars, walletVars, enqLog, rx, task, exec, gateVars>>

\* The anchor's task returns an error (the history cannot be read, the queue is
\* closed); a send it was suspended in is abandoned.
ReplayFail(a) ==
    /\ Running /\ anchor[a].state = "running"
    /\ anchor' = [anchor EXCEPT ![a].state = "failed"]
    /\ senders' = senders \ {Replayer(a)}
    /\ pending' = SelectSeq(pending, LAMBDA r : r.src # Replayer(a))
    /\ UNCHANGED <<max_addresses, buffer_size, actions, nextId, responderVars,
                   walletVars, enqLog, rx, task, exec, gateVars>>

\* ------------------------------------------------- Serve::exec
\* A group task that ends once every anchor's task has ended.
GroupEndsWhenDrained == \A a \in Anchors : anchor[a].state # "running"

\* while let Some(result) = catch_ups.next().await { result??; } then pending():
\* the group task ends, with an error, as soon as one anchor's task has failed,
\* and never ends otherwise.
GroupEnds == \E a \in Anchors : anchor[a].state = "failed"

CatchUpGroupFails ==
    /\ Running /\ task["catch_up"] = "running"
    /\ GroupEnds
    /\ task' = [task EXCEPT !["catch_up"] = "err"]
    /\ senders' = senders \ {Group}
    /\ UNCHANGED <<max_addresses, buffer_size, actions, pending, nextId, responderVars,
                   walletVars, enqLog, rx, exec, gateVars, anchor>>

\* client.start() returns an error; the client, and the Sender in its TypeMap, is
\* dropped.
ClientFails ==
    /\ Running /\ task["client"] = "running"
    /\ task' = [task EXCEPT !["client"] = "err"]
    /\ senders' = senders \ {Live}
    /\ UNCHANGED <<max_addresses, buffer_size, actions, pending, nextId, responderVars,
                   walletVars, enqLog, rx, exec, gateVars, anchor>>

\* ------------------------------------------------- Wallet worker
\* The worker takes the next send command and answers it on its oneshot.
WalletAnswers(r) ==
    /\ Running /\ task["wallet"] = "running" /\ requests # <<>>
    /\ requests' = Tail(requests)
    /\ result' = r
    /\ UNCHANGED <<max_addresses, buffer_size, actions, senders, pending, nextId, responderVars,
                   enqLog, rx, task, exec, gateVars, anchor>>

\* wallet.run() returns an error: its receiver is dropped, and with it the oneshot
\* of a command not answered yet.
WalletFails ==
    /\ Running /\ task["wallet"] = "running"
    /\ task' = [task EXCEPT !["wallet"] = "err"]
    /\ requests' = <<>>
    /\ result' = IF result = "pending" THEN "dropped" ELSE result
    /\ UNCHANGED <<max_addresses, buffer_size, actions, senders, pending, nextId, responderVars,
                   enqLog, rx, exec, gateVars, anchor>>

\* A supervisor that takes the end of a task for a normal end of the service.
SelectIgnoresError(t) == "ok"

\* tokio::select! over the four tasks: the branch of a task that has completed
\* is taken and exec returns that task's result.
SelectResult(t) == task[t]

Select(t) ==
    /\ Running /\ task[t] # "running"
    /\ exec' = SelectResult(t)
    /\ UNCHANGED <<max_addresses, buffer_size, actions, senders, pending, nextId, responderVars,
                   walletVars, enqLog, rx, task, gateVars, anchor>>

\* ------------------------------------------------- the system
\* self.catch_up lists the anchors to replay from, any number of them: an anchor
\* of the list has a task with a backlog, the others have none.
Configured == [backlog |-> MaxBacklog, state |-> "running"]
NotConfigured == [backlog |-> 0, state |-> "none"]

Init ==
    /\ max_addresses \in 0..MaxCap
    /\ buffer_size \in 1..MaxBuffer
    /\ actions = <<>>
    /\ anchor \in [Anchors -> {Configured, NotConfigured}]
    /\ senders = {Live, Group}
                    \cup {Replayer(a) : a \in {b \in Anchors : anchor[b] = Configured}}
    /\ pending = <<>>
    /\ nextId = 1
    /\ rpc = "recv"
    /\ cur = NoReq
    /\ addresses = <<>>
    /\ count = 0
    /\ succeeded_addresses = <<>>
    /\ failed_addresses = <<>>
    /\ unparsed_addresses = <<>>
    /\ sent = <<>>
    /\ requests = <<>>
    /\ result = "none"
    /\ last = NoDispense
    /\ replyLog = <<>>
    /\ enqLog = <<>>
    /\ deqLog = <<>>
    /\ rx = <<>>
    /\ task = [t \in Tasks |-> "running"]
    /\ exec = "running"
    /\ now = 0
    /\ rate = [u \in Users |-> [last |-> -1, notices |-> 0]]
    /\ notices = [u \in Users |-> 0]
    /\ later = [u \in Users |-> 0]
    /\ admitted = [u \in Users |-> 0]

Next ==
    \/ Recv
    \/ RecvClosed
    \/ LoopAddress
    \/ AwaitResult
    \/ LoopAlmost
    \/ Reply
    \/ Enqueue
    \/ \E id \in DOMAIN rx : DropReceiver(id)
    \/ \E u \in Users, c \in Contents : NotMine(u, c)
    \/ \E u \in Users, c \in Contents : Limited(u, c)
    \/ \E u \in Users, c \in Contents : Admit(u, c)
    \/ Tick
    \/ \E a \in Anchors, c \in Contents : Replay(a, c)
    \/ \E a \in Anchors : ReplayDone(a)
    \/ \E a \in Anchors : ReplayFail(a)
    \/ CatchUpGroupFails
    \/ ClientFails
    \/ \E r \in {"ok", "err"} : WalletAnswers(r)
    \/ WalletFails
    \/ \E t \in Tasks : Select(t)

Spec == Init /\ [][Next]_vars

\* The path of the Requests, from the producers through the queue to the reply,
\* without the clock of the rate limiter and without the supervisor: each user's
\* first message and the anchors' backlogs.
NextPipeline ==
    \/ \E u \in Users, c \in Contents : Admit(u, c)
    \/ \E a \in Anchors, c \in Contents : Replay(a, c)
    \/ \E a \in Anchors : ReplayDone(a)
    \/ \E a \in Anchors : ReplayFail(a)
    \/ Enqueue
    \/ Recv
    \/ LoopAddress
    \/ AwaitResult
    \/ LoopAlmost
    \/ Reply
    \/ \E r \in {"ok", "err"} : WalletAnswers(r)
    \/ WalletFails

SpecPipeline == Init /\ [][NextPipeline]_vars

\* The Admission Gate alone: live messages and the clock; the Requests it admits
\* wait in the queue.
NextGate ==
    \/ \E u \in Users, c \in Contents : NotMine(u, c)
    \/ \E u \in Users, c \in Contents : Limited(u, c)
    \/ \E u \in Users, c \in Contents : Admit(u, c)
    \/ Tick

SpecGate == Init /\ [][NextGate]_vars

\* One Request with a long content, dispensed against a wallet worker that answers
\* or fails: the Responder alone, fed the first Request of a backlog.
NextDispense ==
    \/ \E a \in Anchors, c \in LongContents : nextId = 1 /\ Replay(a, c)
    \/ Recv
    \/ LoopAddress
    \/ AwaitResult
    \/ LoopAlmost
    \/ Reply
    \/ \E r \in {"ok", "err"} : WalletAnswers(r)
    \/ WalletFails

SpecDispense == Init /\ [][NextDispense]_vars

\* The supervised service with a wallet worker that stays up: the pipeline, the
\* producers that end or fail, the closing of the queue, and the select! of
\* Serve::exec.
NextServe ==
    \/ \E u \in Users, c \in Contents : Admit(u, c)
    \/ \E a \in Anchors, c \in Contents : Replay(a, c)
    \/ \E a \in Anchors : ReplayDone(a)
    \/ \E a \in Anchors : ReplayFail(a)
    \/ Enqueue
    \/ Recv
    \/ RecvClosed
    \/ LoopAddress
    \/ AwaitResult
    \/ LoopAlmost
    \/ Reply
    \/ \E r \in {"ok", "err"} : WalletAnswers(r)
    \/ CatchUpGroupFails
    \/ ClientFails
    \/ \E t \in Tasks : Select(t)

SpecServe == Init /\ [][NextServe]_vars

\* The pipeline beside a wallet worker that can fail, under the select! of
\* Serve::exec; the producers stay up.
NextFatal ==
    \/ \E u \in Users, c \in Contents : Admit(u, c)
    \/ \E a \in Anchors, c \in Contents : Replay(a, c)
    \/ Enqueue
    \/ Recv
    \/ LoopAddress
    \/ AwaitResult
    \/ LoopAlmost
    \/ Reply
    \/ \E r \in {"ok", "err"} : WalletAnswers(r)
    \/ WalletFails
    \/ \E t \in Tasks : Select(t)

\* select! is polled again whenever a task it waits for completes: a branch that
\* stays ready is eventually taken.
FairFatal == Init /\ [][NextFatal]_vars /\ WF_vars(\E t \in Tasks : Select(t))

\* The pipeline while nothing fails: the producers, the queue, the Responder and
\* a wallet worker that answers every command. Every task is scheduled again and
\* again, the queue wakes its waiting senders, and the wallet answers.
NextLive ==
    \/ \E u \in Users, c \in Contents : Admit(u, c)
    \/ \E a \in Anchors, c \in Contents : Replay(a, c)
    \/ \E a \in Anchors : ReplayDone(a)
    \/ Enqueue
    \/ Recv
    \/ LoopAddress
    \/ AwaitResult
    \/ LoopAlmost
    \/ Reply
    \/ \E r \in {"ok", "err"} : WalletAnswers(r)

FairPipeline ==
    /\ Init /\ [][NextLive]_vars
    /\ WF_vars(Enqueue)
    /\ WF_vars(Recv)
    /\ WF_vars(LoopAddress)
    /\ WF_vars(AwaitResult)
    /\ WF_vars(LoopAlmost)
    /\ WF_vars(Reply)
    /\ WF_vars(\E r \in {"ok", "err"} : WalletAnswers(r))

\* The pipeline with repliers that may stop waiting: the receiving half of a
\* Request's oneshot can be dropped at any time; nothing else fails.
NextReceivers ==
    \/ \E u \in Users, c \in Contents : Admit(u, c)
    \/ \E a \in Anchors, c \in Contents : Replay(a, c)
    \/ \E a \in Anchors : ReplayDone(a)
    \/ Enqueue
    \/ Recv
    \/ LoopAddress
    \/ AwaitResult
    \/ LoopAlmost
    \/ Reply
    \/ \E r \in {"ok", "err"} : WalletAnswers(r)
    \/ \E id \in DOMAIN rx : DropReceiver(id)

SpecReceivers == Init /\ [][NextReceivers]_vars

\* The two producers side by side: live messages through the gate and the clock,
\* and the anchors' backlogs; the Requests wait in the queue.
NextIngest ==
    \/ \E u \in Users, c \in Contents : NotMine(u, c)
    \/ \E u \in Users, c \in Contents : Limited(u, c)
    \/ \E u \in Users, c \in Contents : Admit(u, c)
    \/ Tick
    \/ \E a \in Anchors, c \in Contents : Replay(a, c)
    \/ \E a \in Anchors : ReplayDone(a)

SpecIngest == Init /\ [][NextIngest]_vars

\* ------------------------------------------------- properties of dispense
SeqSet(q) == {q[i] : i \in DOMAIN q}

Completed == last.id # 0

\* The addresses filed as failed, without their error text.
FailedTokens == [i \in DOMAIN last.failed |-> last.failed[i][1]]

ValidTokens == SelectSeq(last.tokens, IsAddress)
MalformedTokens == SelectSeq(last.tokens, IsAlmost)
Serviced == last.succeeded \o FailedTokens

\* C1: a request with more valid addresses than the cap k has exactly k addresses
\* serviced (succeeded or failed, one send each), and the other valid addresses
\* are all and only the deferred ones.
C1_ExactlyCapServiced ==
    (Completed /\ Len(ValidTokens) > max_addresses) =>
        /\ Len(Serviced) = max_addresses
        /\ Len(last.sent) = max_addresses
        /\ SeqSet(last.deferred) = SeqSet(ValidTokens) \ SeqSet(Serviced)
        /\ Len(last.deferred) = Len(ValidTokens) - max_addresses

\* C2: after a completed dispense the four buckets are disjoint and hold every
\* token of the request exactly once.
C2_BucketsPartitionTokens ==
    Completed =>
        LET all == last.succeeded \o FailedTokens \o last.unparsed \o last.deferred
        IN  /\ Len(all) = Len(last.tokens)
            /\ \A i \in DOMAIN last.tokens :
                   Cardinality({j \in DOMAIN all : all[j] = last.tokens[i]}) = 1

C2_Witness ==
    /\ Completed
    /\ Serviced # <<>> /\ last.unparsed # <<>> /\ last.deferred # <<>>

\* C3: within a request the send commands follow the order of the addresses in
\* the message, left to right, and at most one send is outstanding at a time.
C3_SendsInMessageOrder ==
    /\ \A i, j \in DOMAIN sent : i < j => sent[i].pos < sent[j].pos
    /\ Len(requests) + (IF result = "pending" /\ requests = <<>> THEN 1 ELSE 0) <= 1

\* C4: malformed tokens do not count against the cap: an address is deferred only
\* if the sends of this request have reached the cap; with a cap of at least 1 a
\* request with a valid address has at least one address serviced.
C4_MalformedNotCounted ==
    Completed =>
        /\ last.deferred # <<>> => Len(last.sent) >= max_addresses
        /\ (max_addresses >= 1 /\ ValidTokens # <<>>) => Serviced # <<>>

\* C5: the unparsed bucket holds every malformed token of the request and nothing
\* else, whatever the cap, the sends made and the token's position.
C5_UnparsedIsMalformed ==
    Completed =>
        /\ SeqSet(last.unparsed) = SeqSet(MalformedTokens)
        /\ Len(last.unparsed) = Len(MalformedTokens)

C5_Witness ==
    /\ Completed
    /\ Len(last.unparsed) >= 2
    /\ last.deferred # <<>>
    /\ \E i, j \in DOMAIN last.tokens :
          /\ i < j /\ IsAlmost(last.tokens[i]) /\ IsAddress(last.tokens[j])

\* ------------------------------------------------- properties of the pipeline
Count(log, x) == Cardinality({i \in DOMAIN log : log[i] = x})

DeqIds == [i \in DOMAIN deqLog |-> deqLog[i].id]

\* The Request run holds and is still dispensing.
InHand(id) == cur.message.id = id /\ rpc \in {"loop", "await"}

\* The Request run held when dispense returned an error.
Abandoned(id) == cur.message.id = id /\ rpc = "failed"

\* C6 as stated: every Request is received once, and every Request received has
\* exactly one reply sent on its oneshot once run is done with it, on every path.
C6_AlwaysOneReply ==
    \A i \in DOMAIN deqLog :
        LET id == deqLog[i].id
        IN  /\ Count(DeqIds, id) = 1
            /\ Count(replyLog, id) = IF InHand(id) THEN 0 ELSE 1

\* C6 as amended: every Request is received once; a Request whose dispense
\* finished has exactly one reply, sent before the next Request is received; the
\* Request in hand when a structural wallet failure ends run has none.
C6_OneReplyUnlessFatal ==
    /\ \A i \in DOMAIN deqLog :
          LET id == deqLog[i].id
          IN  /\ Count(DeqIds, id) = 1
              /\ Count(replyLog, id) =
                    IF InHand(id) \/ Abandoned(id) THEN 0 ELSE 1
    /\ replyLog = SubSeq(DeqIds, 1, Len(replyLog))
    /\ Len(deqLog) - Len(replyLog) =
          IF rpc \in {"loop", "await", "failed"} THEN 1 ELSE 0

C6_Witness ==
    /\ Len(replyLog) = 2
    /\ last.failed # <<>>
    /\ rpc = "recv"

\* C7: run receives the Requests in the order they entered the queue, whichever
\* producer sent them, and replies in that same order.
C7_FifoDelivery ==
    /\ deqLog = SubSeq(enqLog, 1, Len(deqLog))
    /\ [i \in DOMAIN actions |-> Entry(actions[i])]
          = SubSeq(enqLog, Len(deqLog) + 1, Len(enqLog))
    /\ replyLog = SubSeq(DeqIds, 1, Len(replyLog))

C7_Witness ==
    /\ Len(replyLog) = 2
    /\ deqLog[1].src # deqLog[2].src

\* C8: once one of the supervised tasks has failed, Serve::exec returns an error.
C8_FirstFailureIsError ==
    (exec # "running" /\ \E t \in Tasks : task[t] = "err") => exec = "err"

\* C9: no Request has an empty token sequence, in the queue, with a suspended
\* producer or in the Responder; a message without a match is handed back as it
\* was and no Request is made of it.
C9_NoEmptyRequest ==
    /\ \A i \in DOMAIN actions : actions[i].addresses # <<>>
    /\ \A i \in DOMAIN pending : pending[i].addresses # <<>>
    /\ rpc \in {"loop", "await", "failed"} => cur.addresses # <<>>
    /\ Completed => last.tokens # <<>>
    /\ \A c \in Contents :
          LET m == [id |-> nextId, author |-> "past", content |-> c]
              t == TryFromMessage(m, Live)
          IN  FindIter(c) = <<>> => (~t.ok /\ t.message = m /\ t.request = NoReq)

C9_Witness ==
    /\ \E a \in Anchors : anchor[a].backlog < MaxBacklog
    /\ nextId = 1
    /\ actions = <<>> /\ pending = <<>>

\* C10: a user who has sent reply_limit + 1 address-bearing messages in the window
\* after the admitted one has received exactly reply_limit notices, and only the
\* admitted message became a Request.
C10_NoticesThenSilence ==
    \A u \in Users :
        later[u] = ReplyLimit + 1 => (notices[u] = ReplyLimit /\ admitted[u] = 1)

C10_Witness == \E u \in Users : later[u] = ReplyLimit + 1

\* ------------------------------------------------- properties of the gate
\* The Requests made of the user's live messages that wait in the queue or with
\* a suspended producer.
UserRequests(u) ==
    {r.message.id : r \in {q \in SeqSet(actions \o pending) :
                               q.message.author = u /\ q.src = Live}}

\* C11: within a window the notices of a user never exceed reply_limit; once they
\* have reached it, a further address-bearing message of the user in the window
\* changes nothing (no notice, no new Request, no change of the user's rate state);
\* the user's rate state is reset only by an admission outside the window.
C11_NoticesCappedThenDropped ==
    /\ [](\A u \in Users : rate[u].notices <= ReplyLimit /\ notices[u] <= ReplyLimit)
    /\ [][\A u \in Users :
            /\ (InWindow(u) /\ rate[u].notices = ReplyLimit) =>
                  /\ rate'[u] = rate[u]
                  /\ notices'[u] = notices[u]
                  /\ admitted'[u] = admitted[u]
                  /\ UserRequests(u)' \subseteq UserRequests(u)
            /\ rate'[u].last # rate[u].last =>
                  (~InWindow(u) /\ rate'[u] = [last |-> now, notices |-> 0])]_vars

\* A message was dropped in silence: more messages in the window than notices.
C11_Witness ==
    \E u \in Users :
        /\ InWindow(u) /\ rate[u].notices = ReplyLimit
        /\ later[u] > notices[u]

\* ------------------------------------------------- properties of catch-up
\* The anchor can replay a message of u now.
CanReplay(a) ==
    /\ Running /\ ~ResponderGone /\ nextId <= MaxRequests
    /\ anchor[a].state = "running" /\ anchor[a].backlog > 0 /\ ~Waiting(a)

\* C12: a catch-up step leaves the rate-limit state of every user as it was, and
\* a historical message with a token is made a Request and sent on the queue
\* whatever the window and notice count of its author.
C12_ReplayIgnoresRateState ==
    /\ [](\A a \in Anchors, u \in Users :
             CanReplay(a) => ENABLED ReplayOf(a, u, <<"Address">>))
    /\ [][\A a \in Anchors :
            anchor'[a] # anchor[a] =>
               /\ UNCHANGED gateVars
               /\ nextId' # nextId =>
                     \E r \in SeqSet(actions' \o pending') :
                         r.message.id = nextId /\ r.src = Replayer(a)]_vars

\* A Request replayed from the history of a user who is inside the window with
\* the notices used up.
C12_Witness ==
    \E r \in SeqSet(actions \o pending) :
        /\ r.src # Live
        /\ r.message.id > 1
        /\ InWindow(r.message.author)
        /\ rate[r.message.author].notices = ReplyLimit

\* ------------------------------------------------- properties of failures
\* C13: a send the wallet answers with an error does not end the Responder: the
\* address is filed as failed with the error, the loop goes on with the tokens
\* left, the summary is sent, and the next Request is received; the Responder
\* ends with an error only after the wallet worker is gone.
C13_BusinessFailureNotFatal ==
    /\ [](rpc = "failed" => task["wallet"] = "err")
    /\ [](Completed =>
             /\ Count(replyLog, last.id) = 1
             /\ \A i \in DOMAIN last.failed :
                    /\ last.failed[i][2] = "error"
                    /\ last.failed[i][1] \in SeqSet(last.sent))
    /\ [][(rpc = "await" /\ result = "err" /\ rpc' # "await") =>
             /\ rpc' = "loop"
             /\ failed_addresses' =
                   Append(failed_addresses, <<sent[Len(sent)], "error">>)
             /\ UNCHANGED <<succeeded_addresses, unparsed_addresses, addresses,
                            count, cur, task, replyLog>>]_vars

\* A Request with a failed address has been answered and the next one is in hand.
C13_Witness ==
    /\ Completed /\ last.failed # <<>>
    /\ \E i \in DOMAIN deqLog : InHand(deqLog[i].id) /\ deqLog[i].id # last.id

\* C14: when the wallet's channel is closed or the result oneshot is dropped the
\* Responder ends with an error: the Request in hand gets no reply, then or later,
\* no further Request is received, and Serve::exec returns an error.
C14_StructuralFailureIsFatal ==
    /\ [](rpc = "failed" =>
             /\ task["responder"] = "err"
             /\ task["wallet"] = "err"
             /\ Abandoned(deqLog[Len(deqLog)].id)
             /\ Count(replyLog, cur.message.id) = 0
             /\ rx[cur.message.id] # "received"
             /\ exec # "ok")
    /\ [][rpc = "failed" => UNCHANGED <<rpc, cur, deqLog, replyLog, actions>>]_vars
    /\ (rpc = "failed") ~> (exec = "err")

\* The service has ended after the Responder failed with a Request still queued.
C14_Witness ==
    /\ rpc = "failed" /\ exec = "err"
    /\ actions # <<>>
    /\ rx[cur.message.id] = "open"

\* ------------------------------------------------- properties of the queue
\* The ids of the Requests made so far, wherever they are.
Made == DOMAIN rx

Ids(q) == [i \in DOMAIN q |-> q[i].message.id]

\* C15: while nothing fails and the wallet answers, every Request a producer
\* sends, into a full queue too, is received and replied to; the queue holds at
\* most buffer_size Requests; a Request is with its suspended producer, in the
\* queue or received, exactly one of these, and the order of sending is kept.
C15_EveryRequestAnswered ==
    /\ [](Len(actions) <= buffer_size)
    /\ [](LET all == DeqIds \o Ids(actions) \o Ids(pending)
          IN  /\ Len(all) = Cardinality(Made)
              /\ SeqSet(all) = Made
              /\ \A i, j \in DOMAIN all : i < j => all[i] < all[j])
    /\ \A id \in 1..MaxRequests : (id \in Made) ~> (Count(replyLog, id) = 1)

\* A producer is suspended on the full queue.
C15_Witness ==
    /\ pending # <<>>
    /\ Len(actions) = buffer_size

\* C16: when every producer has dropped its Sender the Responder still receives
\* and replies to every Request left in the queue, in the order they were sent,
\* and only then run returns, with Ok(()) and not with an error.
C16_ClosedQueueEndsRun ==
    /\ task["responder"] = "ok" <=> rpc = "done"
    /\ rpc = "done" =>
          /\ senders = {} /\ actions = <<>> /\ pending = <<>>
          /\ replyLog = [i \in DOMAIN enqLog |-> enqLog[i].id]
    /\ (senders = {} /\ actions # <<>>) => rpc # "done"

\* run has returned Ok(()) after it replied to Requests of both producers.
C16_Witness ==
    /\ rpc = "done"
    /\ Len(replyLog) = 2
    /\ enqLog[1].src # enqLog[2].src

\* C17: a summary sent to a reply channel whose receiver is already dropped is
\* lost without an error: the Responder files the dispense as usual, the sends
\* made stand, the task does not fail, and run goes on to the next recv.
C17_DroppedReceiverIgnored ==
    /\ [](rpc = "failed" => task["wallet"] = "err")
    /\ [](\A id \in Made : rx[id] = "received" => Count(replyLog, id) = 1)
    /\ [][(rpc = "loop" /\ rpc' \notin {"loop", "await", "failed"}) =>
             /\ rpc' = "recv"
             /\ replyLog' = Append(replyLog, cur.message.id)
             /\ last'.id = cur.message.id
             /\ last'.sent = sent
             /\ last'.succeeded = succeeded_addresses
             /\ last'.failed = failed_addresses
             /\ rx[cur.message.id] = "dropped" => rx' = rx
             /\ UNCHANGED <<requests, result, task, actions, pending>>]_vars

\* The reply to a Request with a serviced address went to a dropped receiver, and
\* the next Request has been received.
C17_Witness ==
    /\ Completed /\ rx[last.id] = "dropped" /\ last.succeeded # <<>>
    /\ \E i \in DOMAIN deqLog : InHand(deqLog[i].id) /\ deqLog[i].id # last.id

\* ------------------------------------------------- properties of the sends
\* C18: a send command goes to the wallet only for a valid address that is being
\* serviced, with the configured values: none for a malformed token, none for a
\* deferred address, exactly one for each address filed as succeeded or failed,
\* and none at all for a request whose tokens are all malformed.
C18_SendsOnlyForServiced ==
    /\ \A i \in DOMAIN requests :
          /\ requests[i].addr.kind = "Address"
          /\ requests[i].values = Values
          /\ requests[i].addr = sent[Len(sent)]
          /\ requests[i].id = cur.message.id
    /\ \A i \in DOMAIN sent :
          /\ sent[i].kind = "Address"
          /\ sent[i] \in SeqSet(cur.addresses)
          /\ \A j \in DOMAIN sent : sent[i] = sent[j] => i = j
    /\ Completed =>
          /\ Len(last.sent) = Len(Serviced)
          /\ SeqSet(last.sent) = SeqSet(Serviced)
          /\ \A i, j \in DOMAIN last.sent : last.sent[i] = last.sent[j] => i = j
          /\ SeqSet(last.sent) \cap (SeqSet(last.deferred) \cup SeqSet(last.unparsed)) = {}
          /\ (\A i \in DOMAIN last.tokens : last.tokens[i].kind = "Almost")
                => last.sent = <<>>

\* A dispense that sent for one address, deferred another and met a malformed token.
C18_Witness ==
    /\ Completed
    /\ Len(last.sent) = 1 /\ Len(last.deferred) = 1 /\ Len(last.unparsed) = 1

\* ------------------------------------------------- properties of the catch-up group
Drained == \A a \in Anchors : anchor[a].state \in {"done", "none"}

AnchorFailed == \E a \in Anchors : anchor[a].state = "failed"

\* C19: the catch-up group never completes with success: while no anchor task has
\* failed, with every backlog replayed or with no anchor configured, the group
\* stays running and keeps its Sender, and Serve::exec does not return unless
\* another task has ended; the group ends only with the error of a failed anchor.
C19_CatchUpIdlesWhenDone ==
    /\ [](task["catch_up"] # "ok")
    /\ [](task["catch_up"] = "err" => AnchorFailed)
    /\ [](Drained => (task["catch_up"] = "running" /\ Group \in senders))
    /\ []((exec # "running" /\ Drained) =>
             \E t \in Tasks \ {"catch_up"} : task[t] # "running" /\ exec = task[t])
    /\ [][Drained => (Drained' /\ task'["catch_up"] = "running")]_vars
    /\ [][task'["catch_up"] # task["catch_up"] =>
             (task'["catch_up"] = "err" /\ AnchorFailed)]_vars

\* Every anchor has replayed its backlog, the Requests are answered, and the
\* service is running.
C19_Witness ==
    /\ \A a \in Anchors : anchor[a].state = "done"
    /\ replyLog # <<>> /\ rpc = "recv" /\ actions = <<>>
    /\ exec = "running"

\* ------------------------------------------------- properties of the loop bound
Least(a, b) == IF a <= b THEN a ELSE b

====
